---- MODULE Spec2Model ----
(***************************************************************************)
(* Model of the exam answer generator (src/index.tsx): the PDF export,     *)
(* handlePdfExport with its helpers addFooter and renderMarkdown and the   *)
(* file name given to doc.save, and the chat, handleSubmit with its title  *)
(* derivation, the answer of the request and handleNewChat.                *)
(*                                                                         *)
(* Lengths are in hundredths of a point, so that the A4 page height of     *)
(* 841.89pt is the integer 84189.  In the export a question or an answer   *)
(* of the transcript is represented by the number of lines                 *)
(* doc.splitTextToSize wraps it into at the content width, and titleLines  *)
(* is the number of lines the title wraps into; the title is a sequence of *)
(* characters, because the file name is computed from its characters.      *)
(***************************************************************************)
EXTENDS Integers, Sequences, FiniteSets

\* chatTitle, qaPairs  the state of App (lines 18-19)
\* pc                  the position of handlePdfExport (lines 110-183)
\* idx                 the index of qaPairs.forEach (line 159)
\* yPos                the cursor (line 119)
\* numPages, curPage   doc: its number of pages and the page selected
\* titleLines          the number of lines of titleLines (line 155)
\* draws               the doc.text calls of the content (lines 147, 156, 169)
\* stamps              the addFooter calls (lines 121-127)
\* totalPages, i       the footer loop (lines 176-177)
\* saved               the file names handed to doc.save by this call (line 182)
\* exported            the documents saved so far, one for each finished export
\* question, isLoading the state of App (lines 16-17)
\* pending             the generateContent request under way (line 86)
\* renderError         an updater of setQaPairs has thrown (lines 93-104)
\* lastWrite           the last write of an answer by such an updater
VARIABLES chatTitle, qaPairs, pc, idx, yPos, numPages, curPage, titleLines,
          draws, stamps, totalPages, i, saved, exported,
          question, isLoading, pending, renderError, lastWrite

vars == <<chatTitle, qaPairs, pc, idx, yPos, numPages, curPage, titleLines,
          draws, stamps, totalPages, i, saved, exported,
          question, isLoading, pending, renderError, lastWrite>>

\* What an export reads and never writes: the state of App and the
\* result of measuring the title.
appVars == <<chatTitle, qaPairs, titleLines, question, isLoading, pending,
             renderError, lastWrite>>

(***************************************************************************)
(* Bounds of the model.                                                    *)
(***************************************************************************)
MaxPairs == 2
MaxTitleLen == 3
MaxExports == 2

\* Numbers of wrapped lines of a question (12pt bold, 14pt per line): one
\* line, the first count that no longer fits under a one-line title (47),
\* the last count that fits on an empty page (52) and the first that does
\* not (53).
QLineCounts == {1, 47, 52, 53}

\* Numbers of wrapped lines of an answer (11pt, 12pt per line): 61 lines
\* is the last count that fits on an empty page, 62 the first that does not.
ALineCounts == {0, 1, 61, 62}

\* Numbers of wrapped lines of the title (24pt bold, 26pt per line): 27
\* lines is the last count that ends above the bottom margin, 28 the first
\* that does not.
TitleLineCounts == {1, 2, 27, 28}

\* Characters a typed question is made of in the file name specification.
TitleAlphabet == {"a", "Q", "7", " ", ".", "_"}

(***************************************************************************)
(* Layout constants of handlePdfExport.                                    *)
(***************************************************************************)
pageMargin == 5000
pageHeight == 84189
titleTop == 8000
titleLineHeight == 2600
titleGap == 4000
qLineHeight == 1400
qGap == 1500
aLineHeight == 1200
aGap == 1000
pairGap == 2500
titleMax == 40

\* pageHeight - pageMargin: the lowest position a block may end at.
PageBottom == pageHeight - pageMargin

\* Usable height of a page: page height minus the top and bottom margins.
UsableHeight == pageHeight - pageMargin - pageMargin

(***************************************************************************)
(* Characters.                                                             *)
(***************************************************************************)
AsciiLower == <<"a", "b", "c", "d", "e", "f", "g", "h", "i", "j", "k", "l", "m",
                "n", "o", "p", "q", "r", "s", "t", "u", "v", "w", "x", "y", "z">>
AsciiUpper == <<"A", "B", "C", "D", "E", "F", "G", "H", "I", "J", "K", "L", "M",
                "N", "O", "P", "Q", "R", "S", "T", "U", "V", "W", "X", "Y", "Z">>
AsciiDigit == <<"0", "1", "2", "3", "4", "5", "6", "7", "8", "9">>

Range(s) == {s[k] : k \in DOMAIN s}

WhiteSpace == {" ", "\n", "\t"}

\* String.prototype.trim: leading and trailing white space removed.
RECURSIVE trim(_)
trim(s) ==
    IF s = <<>> THEN s
    ELSE IF s[1] \in WhiteSpace THEN trim(Tail(s))
    ELSE IF s[Len(s)] \in WhiteSpace THEN trim(SubSeq(s, 1, Len(s) - 1))
    ELSE s

\* String.prototype.substring(0, n): the first n characters, or all of them.
substring(s, n) == SubSeq(s, 1, IF n < Len(s) THEN n ELSE Len(s))

\* The title handleSubmit derives from the first question of a chat.
newTitle(currentQuestion) ==
    substring(currentQuestion, titleMax)
        \o (IF Len(currentQuestion) > titleMax THEN <<".", ".", ".">> ELSE <<>>)

\* String.prototype.toLowerCase on one character; after the replacement
\* only ASCII letters, digits and "_" are left.
toLowerCaseNone(c) == c

toLowerCase(c) ==
    IF \E k \in DOMAIN AsciiUpper : AsciiUpper[k] = c
    THEN AsciiLower[CHOOSE k \in DOMAIN AsciiUpper : AsciiUpper[k] = c]
    ELSE c

\* The class [a-z0-9] matched without the i flag.
InClassCaseSensitive(c) == c \in Range(AsciiLower) \cup Range(AsciiDigit)

\* Does the character belong to [a-z0-9] under the i flag (no u flag: a
\* character outside ASCII never folds to an ASCII letter).
InClass(c) == c \in Range(AsciiLower) \cup Range(AsciiUpper) \cup Range(AsciiDigit)

\* chatTitle.replace(/[^a-z0-9]/gi, '_')
replace(s) == [k \in DOMAIN s |-> IF InClass(s[k]) THEN s[k] ELSE "_"]

\* `${chatTitle.replace(/[^a-z0-9]/gi, '_').toLowerCase()}.pdf`
FileName(title) ==
    [k \in DOMAIN title |-> toLowerCase(replace(title)[k])] \o <<".", "p", "d", "f">>

(***************************************************************************)
(* Titles and transcripts.                                                 *)
(***************************************************************************)
DefaultTitle == <<"E", "x", "a", "m", " ", "A", "n", "s", "w", "e", "r", " ",
                  "G", "e", "n", "e", "r", "a", "t", "o", "r">>

\* The placeholder question of the input form (39 characters).
ExampleQuestion ==
    <<"Q", "1", " ", "(", "5", " ", "m", "a", "r", "k", "s", ")", ":", " ",
      "E", "x", "p", "l", "a", "i", "n", " ", "P", "h", "o", "t", "o", "s",
      "y", "n", "t", "h", "e", "s", "i", "s", ".", ".", ".">>

\* A question of 48 characters, cut to 40 characters and "..." in the title.
LongQuestion ==
    <<"C", "o", "m", "p", "a", "r", "e", " ", "m", "i", "t", "o", "s", "i",
      "s", " ", "a", "n", "d", " ", "m", "e", "i", "o", "s", "i", "s", " ",
      "i", "n", " ", "a", " ", "t", "a", "b", "l", "e", " ", "(", "8", " ",
      "m", "a", "r", "k", "s", ")">>

SeqsUpTo(S, n) == UNION {[1..m -> S] : m \in 0..n}

\* The questions typed in the file name specification.
TypedQuestions == SeqsUpTo(TitleAlphabet, MaxTitleLen) \cup {ExampleQuestion, LongQuestion}

\* The answer of a pair whose response had no text: response.text is
\* undefined, and so is qa.a.
undefined == -1

\* marked.parse(text) throws on undefined.
parseNeverThrows(a) == FALSE

parseThrows(a) == a = undefined

QAPair == [q : QLineCounts, a : ALineCounts \cup {undefined}]

Transcripts == UNION {[1..m -> QAPair] : m \in 1..MaxPairs}

(***************************************************************************)
(* Page flow.                                                              *)
(***************************************************************************)
\* A break decision that looks at the cursor only.
NeedsBreakCursorOnly(y, h) == y > PageBottom

\* A break decision that never breaks.
NeedsBreakNever(y, h) == FALSE

\* yPos + textHeight > pageHeight - pageMargin
NeedsBreak(y, h) == y + h > PageBottom

\* A page break that forgets to reset the cursor.
ReserveNoReset(y, h) == y

\* The cursor a question or an answer is drawn at: pageMargin after a
\* break, the current cursor otherwise.
Reserve(y, h) == IF NeedsBreak(y, h) THEN pageMargin ELSE y

\* A footer that numbers the pages from 0.
addFooterZeroBased(st, page, pageNumber, pass) ==
    Append(st, [page |-> page, title |-> chatTitle, number |-> pageNumber - 1,
                final |-> pass])

\* addFooter(pageNumber): two doc.text calls on the page that is selected,
\* chatTitle on the left and the page number on the right.
addFooter(st, page, pageNumber, pass) ==
    Append(st, [page |-> page, title |-> chatTitle, number |-> pageNumber,
                final |-> pass])

\* An empty check that never holds.
IsEmptyNever(pairs) == FALSE

\* qaPairs.length === 0
IsEmpty(pairs) == Len(pairs) = 0

\* The title is the start of the first question: more than three title
\* lines come from line feeds, which the question contains as well.
TitleWraps(n) == n <= 3 \/ (qaPairs # <<>> /\ n <= qaPairs[1].q)

Block(kind, pair, pre, h, gap) ==
    [kind |-> kind, pair |-> pair, page |-> IF NeedsBreak(pre, h) THEN numPages + 1 ELSE curPage,
     pre |-> pre, broke |-> NeedsBreak(pre, h), y |-> Reserve(pre, h), h |-> h,
     after |-> Reserve(pre, h) + h + gap]

(***************************************************************************)
(* Initial states.                                                         *)
(***************************************************************************)
\* No export has run.
InitExport ==
    /\ pc = "idle"
    /\ idx = 0
    /\ yPos = 0
    /\ numPages = 0
    /\ curPage = 0
    /\ draws = <<>>
    /\ stamps = <<>>
    /\ totalPages = 0
    /\ i = 0
    /\ saved = <<>>
    /\ exported = <<>>

\* An empty input, no request under way.
InitForm ==
    /\ question = <<>>
    /\ isLoading = FALSE
    /\ pending = <<>>
    /\ renderError = FALSE
    /\ lastWrite = <<>>

Init ==
    /\ InitExport
    /\ InitForm
    /\ \/ /\ qaPairs = <<>>
          /\ chatTitle = DefaultTitle
       \/ /\ qaPairs \in Transcripts
          /\ chatTitle = newTitle(trim(ExampleQuestion))
    /\ titleLines \in {n \in TitleLineCounts : TitleWraps(n)}

InitName ==
    /\ InitExport
    /\ InitForm
    /\ \/ /\ qaPairs = <<>>
          /\ chatTitle = DefaultTitle
       \/ /\ qaPairs = <<[q |-> 1, a |-> 1]>>
          /\ chatTitle \in {newTitle(trim(t)) : t \in {u \in TypedQuestions : trim(u) # <<>>}}
    /\ titleLines \in {n \in TitleLineCounts : TitleWraps(n)}

(***************************************************************************)
(* handlePdfExport.                                                        *)
(***************************************************************************)
\* if (qaPairs.length === 0) return;
ExportEmpty ==
    /\ pc = "idle"
    /\ IsEmpty(qaPairs)
    /\ pc' = "returned"
    /\ UNCHANGED <<idx, yPos, numPages, curPage, draws, stamps, totalPages, i,
                   saved, exported>>
    /\ UNCHANGED appVars

\* A start that keeps the document of the export before it.
StartDocumentReused ==
    /\ ~IsEmpty(qaPairs)
    /\ numPages' = IF numPages = 0 THEN 1 ELSE numPages
    /\ curPage' = IF curPage = 0 THEN 1 ELSE curPage
    /\ yPos' = pageMargin
    /\ saved' = <<>>
    /\ pc' = "title"
    /\ UNCHANGED <<idx, draws, stamps, totalPages, i, exported>>
    /\ UNCHANGED appVars

\* new jsPDF(...); let yPos = pageMargin;  Every call makes its own
\* document, with nothing drawn and nothing saved.
StartDocument ==
    /\ ~IsEmpty(qaPairs)
    /\ numPages' = 1
    /\ curPage' = 1
    /\ yPos' = pageMargin
    /\ draws' = <<>>
    /\ stamps' = <<>>
    /\ saved' = <<>>
    /\ pc' = "title"
    /\ UNCHANGED <<idx, totalPages, i, exported>>
    /\ UNCHANGED appVars

\* The first press of the export button on a chat with pairs.
NewDocument ==
    /\ pc = "idle"
    /\ StartDocument

\* The export button pressed again after an export: handlePdfExport runs
\* a second time on the same title and pairs.
ExportAgain ==
    /\ pc = "done"
    /\ Len(exported) < MaxExports
    /\ StartDocument

\* The title block: drawn at yPos = 80 without a break decision.
TitleBlock ==
    /\ pc = "title"
    /\ draws' = Append(draws,
           [kind |-> "title", pair |-> 0, page |-> curPage, pre |-> titleTop,
            broke |-> FALSE, y |-> titleTop, h |-> titleLines * titleLineHeight,
            after |-> titleTop + titleLines * titleLineHeight + titleGap])
    /\ yPos' = titleTop + titleLines * titleLineHeight + titleGap
    /\ idx' = 1
    /\ pc' = IF Len(qaPairs) >= 1 THEN "question" ELSE "pass"
    /\ UNCHANGED <<numPages, curPage, stamps, totalPages, i, saved, exported>>
    /\ UNCHANGED appVars

\* A block of height h with the break decision in front of it.
PlaceBlock(kind, h, gap) ==
    /\ draws' = Append(draws, Block(kind, idx, yPos, h, gap))
    /\ stamps' = IF NeedsBreak(yPos, h)
                 THEN addFooter(stamps, curPage, numPages, FALSE)
                 ELSE stamps
    /\ numPages' = IF NeedsBreak(yPos, h) THEN numPages + 1 ELSE numPages
    /\ curPage' = IF NeedsBreak(yPos, h) THEN numPages + 1 ELSE curPage
    /\ yPos' = Reserve(yPos, h) + h + gap

\* The question of pair idx.
QuestionBlock ==
    /\ pc = "question"
    /\ PlaceBlock("question", qaPairs[idx].q * qLineHeight, qGap)
    /\ pc' = "answer"
    /\ UNCHANGED <<idx, totalPages, i, saved, exported>>
    /\ UNCHANGED appVars

\* renderMarkdown(qa.a): an exception of marked.parse leaves handlePdfExport.
renderMarkdown ==
    /\ pc = "answer"
    /\ IF parseThrows(qaPairs[idx].a)
       THEN /\ pc' = "aborted"
            /\ UNCHANGED <<draws, stamps, numPages, curPage, yPos>>
       ELSE /\ PlaceBlock("answer", qaPairs[idx].a * aLineHeight, aGap)
            /\ pc' = "spacing"
    /\ UNCHANGED <<idx, totalPages, i, saved, exported>>
    /\ UNCHANGED appVars

\* yPos += 25; and the next element of qaPairs.forEach
PairSpacing ==
    /\ pc = "spacing"
    /\ yPos' = yPos + pairGap
    /\ idx' = idx + 1
    /\ pc' = IF idx + 1 <= Len(qaPairs) THEN "question" ELSE "pass"
    /\ UNCHANGED <<numPages, curPage, draws, stamps, totalPages, i, saved, exported>>
    /\ UNCHANGED appVars

\* const totalPages = doc.internal.getNumberOfPages(); let i = 1
BeginFooterPass ==
    /\ pc = "pass"
    /\ totalPages' = numPages
    /\ i' = 1
    /\ pc' = "footers"
    /\ UNCHANGED <<idx, yPos, numPages, curPage, draws, stamps, saved, exported>>
    /\ UNCHANGED appVars

\* The footer loop without doc.setPage(i).
FooterPassNoSetPage ==
    /\ pc = "footers"
    /\ i <= totalPages
    /\ stamps' = addFooter(stamps, curPage, i, TRUE)
    /\ i' = i + 1
    /\ UNCHANGED <<pc, idx, yPos, numPages, curPage, draws, totalPages, saved, exported>>
    /\ UNCHANGED appVars

\* doc.setPage(i); addFooter(i);
FooterPass ==
    /\ pc = "footers"
    /\ i <= totalPages
    /\ curPage' = i
    /\ stamps' = addFooter(stamps, i, i, TRUE)
    /\ i' = i + 1
    /\ UNCHANGED <<pc, idx, yPos, numPages, draws, totalPages, saved, exported>>
    /\ UNCHANGED appVars

\* doc.save(...): the finished document goes to the download.
Save ==
    /\ pc = "footers"
    /\ i > totalPages
    /\ saved' = Append(saved, FileName(chatTitle))
    /\ exported' = Append(exported,
           [name |-> FileName(chatTitle), pages |-> numPages, draws |-> draws,
            stamps |-> stamps])
    /\ pc' = "done"
    /\ UNCHANGED <<idx, yPos, numPages, curPage, draws, stamps, totalPages, i>>
    /\ UNCHANGED appVars

Next ==
    \/ ExportEmpty
    \/ NewDocument
    \/ TitleBlock
    \/ QuestionBlock
    \/ renderMarkdown
    \/ PairSpacing
    \/ BeginFooterPass
    \/ FooterPass
    \/ Save

Spec == Init /\ [][Next]_vars

\* The exports of one chat, one after the other.
NextAgain == Next \/ ExportAgain

SpecAgain == Init /\ [][NextAgain]_vars

SpecName == InitName /\ [][Next]_vars

(***************************************************************************)
(* The chat: handleSubmit, handleNewChat and the answer of the request.    *)
(* Here a question is the sequence of characters typed and an answer is a  *)
(* string.  The handlers run on the rendered state; a state update that    *)
(* throws in its updater ends the application (renderError).               *)
(***************************************************************************)
\* What the user types into the textarea: nothing, white space only, a
\* question, a question with white space around it.
ChatTyped == {<<>>, <<" ">>, <<"a">>, <<" ", "b", " ">>}

\* response.text
Answers == {"answer"}

ErrorText == "Sorry, an error occurred. Please try again."

\* What the chat never writes: the export and the measured title.
exportVars == <<pc, idx, yPos, numPages, curPage, titleLines, draws, stamps,
                totalPages, i, saved, exported>>

\* A submit check that lets every input pass.
IsBlankNever(text) == FALSE

\* !question.trim()
IsBlank(text) == trim(text) = <<>>

InitChat ==
    /\ InitExport
    /\ InitForm
    /\ qaPairs = <<>>
    /\ chatTitle = DefaultTitle
    /\ titleLines = 1

\* onChange of the textarea: setQuestion(e.target.value)
setQuestion ==
    /\ ~renderError
    /\ \E t \in ChatTyped :
          /\ t # question
          /\ question' = t
    /\ UNCHANGED <<chatTitle, qaPairs, isLoading, pending, lastWrite, renderError>>
    /\ UNCHANGED exportVars

\* handleSubmit up to the await: the pair is added and the request sent.
handleSubmit ==
    /\ ~renderError
    /\ ~(IsBlank(question) \/ isLoading)
    /\ Len(qaPairs) < MaxPairs
    /\ isLoading' = TRUE
    /\ question' = <<>>
    /\ qaPairs' = Append(qaPairs, [q |-> trim(question), a |-> ""])
    /\ chatTitle' = IF Len(qaPairs) = 0 THEN newTitle(trim(question)) ELSE chatTitle
    /\ pending' = <<trim(question)>>
    /\ UNCHANGED <<lastWrite, renderError>>
    /\ UNCHANGED exportVars

\* The rest of handleSubmit once the request has settled: the updater
\* writes into the last pair of the list it finds, and finally
\* setIsLoading(false).  On an empty list updatedPairs[-1] is undefined and
\* the updater throws during rendering: no update of the batch is
\* committed and the application is unmounted.
Settle(text) ==
    /\ ~renderError
    /\ pending # <<>>
    /\ pending' = <<>>
    /\ IF Len(qaPairs) = 0
       THEN /\ renderError' = TRUE
            /\ lastWrite' = <<[request |-> pending[1], found |-> FALSE, target |-> <<>>]>>
            /\ UNCHANGED <<qaPairs, isLoading>>
       ELSE /\ qaPairs' = [qaPairs EXCEPT ![Len(qaPairs)].a = text]
            /\ lastWrite' = <<[request |-> pending[1], found |-> TRUE,
                               target |-> qaPairs[Len(qaPairs)].q]>>
            /\ isLoading' = FALSE
            /\ UNCHANGED renderError
    /\ UNCHANGED <<chatTitle, question>>
    /\ UNCHANGED exportVars

\* The request succeeds: the try branch.
GenerateSucceeds == \E text \in Answers : Settle(text)

\* The request fails: the catch branch.
GenerateFails == Settle(ErrorText)

\* handleNewChat, with the answer of window.confirm.
handleNewChat ==
    /\ ~renderError
    /\ \E confirm \in BOOLEAN :
          /\ ~(Len(qaPairs) > 0 /\ ~confirm)
          /\ qaPairs' = <<>>
          /\ chatTitle' = DefaultTitle
          /\ question' = <<>>
    /\ UNCHANGED <<isLoading, pending, lastWrite, renderError>>
    /\ UNCHANGED exportVars

NextChat ==
    \/ setQuestion
    \/ handleSubmit
    \/ GenerateSucceeds
    \/ GenerateFails
    \/ handleNewChat

SpecChat == InitChat /\ [][NextChat]_vars

\* A request that was sent settles: it succeeds or it fails.
SpecChatFair == SpecChat /\ WF_vars(GenerateSucceeds \/ GenerateFails)

(***************************************************************************)
(* Observations used by the properties.                                    *)
(***************************************************************************)
\* The states right after a cursor advance (yPos += ...).
AfterAdvance == {"question", "answer", "spacing", "pass"}

InRange(y) == pageMargin <= y /\ y <= PageBottom

FooterCount(p) == Cardinality({k \in DOMAIN stamps : stamps[k].page = p})

\* The blocks of the transcript in drawing order: the title, then the
\* question and the answer of each pair.
NumBlocks == 1 + 2 * Len(qaPairs)

BlockHeight(n) ==
    IF n = 1 THEN titleLines * titleLineHeight
    ELSE IF n % 2 = 0 THEN qaPairs[n \div 2].q * qLineHeight
    ELSE qaPairs[(n - 1) \div 2].a * aLineHeight

BlockGap(n) ==
    IF n = 1 THEN titleGap
    ELSE IF n % 2 = 0 THEN qGap
    ELSE aGap + pairGap

\* Where block n would start if everything were laid out on one endless page.
RECURSIVE FlowTop(_)
FlowTop(n) ==
    IF n = 1 THEN titleTop
    ELSE FlowTop(n - 1) + BlockHeight(n - 1) + BlockGap(n - 1)

\* The blocks that end below the bottom margin of that endless page.
Overflowing == {n \in 1..NumBlocks : FlowTop(n) + BlockHeight(n) > PageBottom}

FirstOverflowing == CHOOSE n \in Overflowing : \A m \in Overflowing : n <= m

LineHeightOf(kind) ==
    IF kind = "title" THEN titleLineHeight
    ELSE IF kind = "question" THEN qLineHeight
    ELSE aLineHeight

(***************************************************************************)
(* Properties.                                                             *)
(***************************************************************************)
\* C1: when the export of a non-empty transcript has finished, every page
\* 1..pageCount has received exactly one footer stamp, so the number of
\* stamps equals the page count.
C1_OneFooterPerPage ==
    pc = "done" =>
        /\ Len(stamps) = numPages
        /\ \A p \in 1..numPages : FooterCount(p) = 1

\* C2: no footer is written before all content has been placed: a stamp
\* exists only once the footer pass has begun.
C2_FootersAfterContent ==
    stamps # <<>> => pc \in {"footers", "done"}

\* C3: a block (title, question or answer) that is not taller than the
\* usable page height ends above the bottom margin of the page it is
\* drawn on.
C3_BlockOnOnePage ==
    \A k \in DOMAIN draws :
        draws[k].h <= UsableHeight => draws[k].y + draws[k].h <= PageBottom

\* C4 as stated: right after every advance the cursor lies within
\* [topMargin, pageHeight - bottomMargin].
C4_CursorInRange ==
    pc \in AfterAdvance => InRange(yPos)

\* C4 as amended: right after every advance the cursor is at least
\* topMargin, and after a question or answer block that is not taller than
\* the usable height it exceeds pageHeight - bottomMargin by at most the
\* spacing added behind the block (15 after a question, 10 after an
\* answer, 35 with the inter-pair spacing).
C4_CursorBounded ==
    pc \in AfterAdvance =>
        /\ yPos >= pageMargin
        /\ LET last == draws[Len(draws)] IN
           (last.kind # "title" /\ last.h <= UsableHeight) =>
               yPos <= PageBottom + (IF pc = "answer" THEN qGap
                                     ELSE IF pc = "spacing" THEN aGap
                                     ELSE aGap + pairGap)

\* C4 witness: the cursor has left the range behind a block that fits a page.
C4_Witness ==
    /\ pc \in AfterAdvance
    /\ yPos > PageBottom
    /\ draws[Len(draws)].kind # "title"
    /\ draws[Len(draws)].h <= UsableHeight

\* C5: for a title or question block there is no page break when cursor +
\* height equals pageHeight - bottomMargin, and there is one when cursor +
\* height is over that limit by the least amount (less than one line).
C5_BreakBoundary ==
    \A k \in DOMAIN draws :
        draws[k].kind \in {"title", "question"} =>
            /\ draws[k].pre + draws[k].h = PageBottom => ~draws[k].broke
            /\ (/\ draws[k].pre + draws[k].h > PageBottom
                /\ draws[k].pre + draws[k].h - LineHeightOf(draws[k].kind) <= PageBottom)
                   => draws[k].broke

\* C6: when the blocks of the transcript, laid out one after the other, do
\* not fit one page, the document has at least two pages, and the first
\* block on page 2 is the block whose break decision added the page, drawn
\* at topMargin; it is the first block that did not fit (the first question
\* when that block is the title).
C6_BreakBlockOpensPage2 ==
    (pc = "done" /\ Overflowing # {}) =>
        /\ numPages >= 2
        /\ LET b == IF FirstOverflowing = 1 THEN 2 ELSE FirstOverflowing IN
           /\ draws[b].page = 2
           /\ draws[b].broke
           /\ draws[b].y = pageMargin
           /\ \A k \in 1..(b - 1) : draws[k].page = 1

\* C6 witness: a finished export whose first overflowing block is an answer.
C6_Witness ==
    /\ pc = "done"
    /\ Overflowing # {}
    /\ FirstOverflowing > 2
    /\ FirstOverflowing % 2 = 1

\* C7 as stated: an export of an empty list of pairs fails with
\* EmptyTranscriptError, and no document is created or saved.
C7_EmptyFails ==
    (qaPairs = <<>> /\ pc # "idle") =>
        /\ pc = "failed"
        /\ numPages = 0
        /\ saved = <<>>

\* C7 as amended: an export of an empty list of pairs returns at once
\* without an error, and no document is created, drawn on or saved.
C7_EmptyReturns ==
    (qaPairs = <<>> /\ pc # "idle") =>
        /\ pc = "returned"
        /\ numPages = 0
        /\ draws = <<>>
        /\ stamps = <<>>
        /\ saved = <<>>

\* C7 witness: the export has returned on an empty list of pairs.
C7_Witness ==
    qaPairs = <<>> /\ pc = "returned"

\* C8: the file name is the title character by character: a letter is
\* lower-cased, a digit is kept, any other character is one "_", the stem
\* is as long as the title, and ".pdf" follows.
C8_FileNamePerCharacter ==
    pc = "done" =>
        /\ Len(saved) = 1
        /\ LET f == saved[1]
               n == Len(chatTitle) IN
           /\ Len(f) = n + 4
           /\ SubSeq(f, n + 1, n + 4) = <<".", "p", "d", "f">>
           /\ \A k \in 1..n :
                 \/ /\ chatTitle[k] \in Range(AsciiLower) \cup Range(AsciiDigit)
                    /\ f[k] = chatTitle[k]
                 \/ /\ \E j \in DOMAIN AsciiUpper :
                          chatTitle[k] = AsciiUpper[j] /\ f[k] = AsciiLower[j]
                 \/ /\ chatTitle[k] \notin
                          Range(AsciiLower) \cup Range(AsciiUpper) \cup Range(AsciiDigit)
                    /\ f[k] = "_"

\* C8 witness: a saved file whose title has an upper-case letter and a
\* character that is neither a letter nor a digit.
C8_Witness ==
    /\ pc = "done"
    /\ saved # <<>>
    /\ \E k \in DOMAIN chatTitle : chatTitle[k] \in Range(AsciiUpper)
    /\ \E k \in DOMAIN chatTitle : chatTitle[k] \in {" ", "."}

\* The file name the specification gives for the example title.
StatedExampleName ==
    <<"q", "1", "_", "5", "_", "m", "a", "r", "k", "s", "_", "_", "e", "x",
      "p", "l", "a", "i", "n", "_", "p", "h", "o", "t", "o", "s", "y", "n",
      "t", "h", "e", "s", "i", "s", "_", "_", "_", ".", "p", "d", "f">>

\* q1__5_marks___explain_photosynthesis___.pdf
ActualExampleName ==
    <<"q", "1", "_", "_", "5", "_", "m", "a", "r", "k", "s", "_", "_", "_",
      "e", "x", "p", "l", "a", "i", "n", "_", "p", "h", "o", "t", "o", "s",
      "y", "n", "t", "h", "e", "s", "i", "s", "_", "_", "_", ".", "p", "d", "f">>

\* C9 as stated: the title "Q1 (5 marks): Explain Photosynthesis..." is
\* saved as q1_5_marks__explain_photosynthesis___.pdf.
C9_StatedExample ==
    (pc = "done" /\ chatTitle = ExampleQuestion) => saved = <<StatedExampleName>>

\* C9 as amended: the title "Q1 (5 marks): Explain Photosynthesis..." is
\* saved as q1__5_marks___explain_photosynthesis___.pdf, one "_" for each
\* of " (" and of "): ".
C9_ActualExample ==
    (pc = "done" /\ chatTitle = ExampleQuestion) => saved = <<ActualExampleName>>

\* C9 witness: the export of the example title has saved its file.
C9_Witness ==
    pc = "done" /\ chatTitle = ExampleQuestion /\ Len(saved) = 1

\* The cursor has been outside [topMargin, pageHeight - bottomMargin] after
\* an advance of this export.
CursorWentOut ==
    \/ \E k \in DOMAIN draws : ~InRange(draws[k].after)
    \/ pc \in {"question", "pass"} /\ ~InRange(yPos)

C11_NoPartialFile ==
    /\ Len(saved) <= 1
    /\ saved # <<>> =>
          /\ pc = "done"
          /\ Len(draws) = NumBlocks
          /\ \A p \in 1..numPages :
                \E k \in DOMAIN stamps : stamps[k].final /\ stamps[k].page = p
    /\ pc = "aborted" => saved = <<>>
    /\ (\E k \in DOMAIN qaPairs : qaPairs[k].a = undefined) =>
          (saved = <<>> /\ exported = <<>>)

\* C11 witness: an export aborted by marked.parse with blocks already
\* drawn and nothing saved.
C11_Witness ==
    /\ pc = "aborted"
    /\ Len(draws) >= 3
    /\ saved = <<>>

\* C12: one pair with a one-line question and a one-line answer that fit
\* the first page together with the title gives one page with the title
\* block, the question line and the answer line, and exactly one footer,
\* with the title and the page number 1.
C12_SinglePage ==
    (/\ pc = "done"
     /\ Len(qaPairs) = 1
     /\ qaPairs[1].q = 1
     /\ qaPairs[1].a = 1
     /\ Overflowing = {}) =>
        /\ numPages = 1
        /\ Len(draws) = 3
        /\ draws[1].kind = "title" /\ draws[1].page = 1
        /\ draws[2].kind = "question" /\ draws[2].page = 1 /\ draws[2].h = qLineHeight
        /\ draws[3].kind = "answer" /\ draws[3].page = 1 /\ draws[3].h = aLineHeight
        /\ stamps = <<[page |-> 1, title |-> chatTitle, number |-> 1, final |-> TRUE]>>

\* C12 witness: the finished export of such a transcript.
C12_Witness ==
    /\ pc = "done"
    /\ qaPairs = <<[q |-> 1, a |-> 1]>>
    /\ Overflowing = {}
    /\ Len(stamps) = 1

\* C13: two exports of the same title and pairs give the same page count
\* and the same place (page and cursor) for every block, and an export
\* starts from a new document whatever the exports before it did.
C13_Idempotent ==
    /\ \A j, k \in DOMAIN exported :
          /\ exported[j].pages = exported[k].pages
          /\ exported[j].draws = exported[k].draws
          /\ exported[j].name = exported[k].name
    /\ pc = "title" =>
          (numPages = 1 /\ curPage = 1 /\ draws = <<>> /\ stamps = <<>>
           /\ yPos = pageMargin)

\* C13 witness: a second export of a transcript of several pages is done.
C13_Witness ==
    /\ Len(exported) = 2
    /\ exported[2].pages >= 2

\* C15: the break decision is made once in front of a question block and
\* once in front of an answer block: when cursor + height is over
\* pageHeight - bottomMargin the page count grows by exactly one and the
\* block is drawn at topMargin on the new page; otherwise the page count
\* and the cursor stay and the block is drawn at the cursor.
C15_BreakDecision ==
    [][((pc = "question" /\ pc' = "answer") \/ (pc = "answer" /\ pc' = "spacing")) =>
         LET h == IF pc = "question" THEN qaPairs[idx].q * qLineHeight
                  ELSE qaPairs[idx].a * aLineHeight
             d == draws'[Len(draws')]
         IN /\ Len(draws') = Len(draws) + 1
            /\ d.h = h
            /\ IF yPos + h > pageHeight - pageMargin
               THEN /\ numPages' = numPages + 1
                    /\ d.page = numPages + 1
                    /\ d.y = pageMargin
               ELSE /\ numPages' = numPages
                    /\ d.page = curPage
                    /\ d.y = yPos]_vars

\* C15 witness: a block has just been drawn behind a page break.
C15_Witness ==
    /\ pc \in {"answer", "spacing"}
    /\ draws # <<>>
    /\ draws[Len(draws)].broke
    /\ draws[Len(draws)].y = pageMargin

\* C16: a question or answer block taller than the usable page height is
\* drawn whole at topMargin on a page added for it, which has no earlier
\* content; the cursor advances past it and the export goes on to the end
\* without an error.
C16_OversizedBlock ==
    /\ pc # "failed"
    /\ \A k \in DOMAIN draws :
          (draws[k].kind # "title" /\ draws[k].h > UsableHeight) =>
              /\ draws[k].broke
              /\ draws[k].y = pageMargin
              /\ draws[k].after > PageBottom
              /\ \A j \in 1..(k - 1) : draws[j].page < draws[k].page
    /\ pc = "done" => Len(draws) = NumBlocks

\* C16 witness: a finished export with an oversized block that is not the
\* last block.
C16_Witness ==
    /\ pc = "done"
    /\ \E k \in 1..(Len(draws) - 1) :
          draws[k].kind # "title" /\ draws[k].h > UsableHeight

\* C17: every footer stamp is drawn on the page whose 1-based index it
\* shows, at a page break and in the final pass.
C17_StampOnItsPage ==
    \A k \in DOMAIN stamps :
        /\ stamps[k].page = stamps[k].number
        /\ stamps[k].page \in 1..numPages

\* C17 witness: the final pass has stamped page 2 after a stamp made at a
\* page break.
C17_Witness ==
    /\ \E k \in DOMAIN stamps : ~stamps[k].final
    /\ \E k \in DOMAIN stamps : stamps[k].final /\ stamps[k].page = 2

\* C14: every pair of qaPairs has a non-empty question in every state
\* reached by handleSubmit, handleNewChat and the answers from an empty chat.
C14_QuestionNonEmpty ==
    \A k \in DOMAIN qaPairs : Len(qaPairs[k].q) > 0

\* C14 witness: a chat of two pairs, the first one answered, whose first
\* question was typed with white space around it.
C14_Witness ==
    /\ Len(qaPairs) = 2
    /\ qaPairs[1].q = <<"b">>
    /\ qaPairs[1].a # ""

\* C18: the answer or error text of a request is written only to the pair
\* that holds the question of that request, never to a missing pair or to
\* the pair of another question.
C18_WriteToOwnPair ==
    /\ ~renderError
    /\ \A k \in DOMAIN lastWrite :
          lastWrite[k].found /\ lastWrite[k].target = lastWrite[k].request

\* C19: an accepted submit sets isLoading, while isLoading holds no pair is
\* added and no second request is started, and isLoading always returns to
\* FALSE.
C19_LoadingEnds ==
    /\ [][Len(qaPairs') > Len(qaPairs) => (~isLoading /\ isLoading')]_vars
    /\ [][isLoading => (pending' = pending \/ pending' = <<>>)]_vars
    /\ (isLoading ~> ~isLoading)

====
